---- MODULE Spec2Model ----
(***************************************************************************)
(* A model of s3namic (src/s3namic/core.py): the format detector           *)
(* (extension), the tree builder (make_tree), the file finder (find_file,  *)
(* find_files) and the parallel reader (read_auto, read_thread).           *)
(*                                                                         *)
(* Python strings are sequences of one-character strings, so that split,   *)
(* endswith, `in` and the lexicographic order of a listing are computed    *)
(* and not assumed.                                                        *)
(***************************************************************************)
EXTENDS Integers, Sequences, FiniteSets, TLC

VARIABLES
    bucket,        \* the bucket snapshot: object key -> stored bytes
    call,          \* the finished call: operation, arguments, what it returned or raised
    params,        \* read_thread's arguments other than workers, and the key (if
                   \* any) whose get_object the store refuses
    workers,       \* read_thread's workers argument, of the call in progress
    files,         \* read_thread: the keys handed to _thread_map
    pc,            \* per task of the pool: where its read_auto call stands
    local,         \* per task: its local values (format tag, loaded handle, bytes read)
    future,        \* per task: the future's result or exception
    responses,     \* per get_object response: the bytes left in its Body stream
    obj,           \* self.__obj: the response last stored by _read_file
    read_content,  \* self.read_content: the bytes last stored by _read_file
    nfetch,        \* per task: its get_object calls
    main,          \* the thread that called read_thread
    outcome,       \* what the last read_thread call returned or raised
    out,           \* per worker count: the outcome of the last call made with it
    ncalls         \* read_thread calls made

threadVars == <<params, workers, files, pc, local, future, responses, obj,
                read_content, nfetch, main, outcome, out, ncalls>>

vars == <<bucket, call, threadVars>>

\* ------------------------------------------------------------------ bounds

\* Longest file name handed to extension().
MaxNameLen == 6

\* ------------------------------------------------------ Python primitives

\* A function's outcome: a returned value or a raised exception.
Return(v) == [kind |-> "return", value |-> v]

Raise(e) == [kind |-> "raise", error |-> e]

\* All strings over alphabet A of length at most n.
StringsUpTo(A, n) == UNION {[1..k -> A] : k \in 0..n}

\* s[i..j] as a string (empty when j < i).
Slice(s, i, j) == [k \in 1..(j - i + 1) |-> s[i + k - 1]]

\* str.endswith(suffix)
endswith(s, suffix) ==
    /\ Len(suffix) <= Len(s)
    /\ Slice(s, Len(s) - Len(suffix) + 1, Len(s)) = suffix

\* str.startswith(prefix)
startswith(s, prefix) ==
    /\ Len(prefix) <= Len(s)
    /\ Slice(s, 1, Len(prefix)) = prefix

\* Python's `sub in s` on strings.
contains(sub, s) ==
    \E i \in 1..(Len(s) - Len(sub) + 1) : Slice(s, i, i + Len(sub) - 1) = sub

\* The positions of character c in s.
Positions(s, c) == {i \in 1..Len(s) : s[i] = c}

Min(S) == CHOOSE x \in S : \A y \in S : x <= y

Max(S) == CHOOSE x \in S : \A y \in S : x >= y

\* str.split(sep) for a one-character separator: the list of the segments
\* between the separators, never empty.
RECURSIVE split(_, _)
split(s, sep) ==
    IF Positions(s, sep) = {}
    THEN <<s>>
    ELSE LET i == Min(Positions(s, sep))
         IN  <<Slice(s, 1, i - 1)>> \o split(Slice(s, i + 1, Len(s)), sep)

\* Python's list[-n]: IndexError when the list is shorter than n.
FromEnd(list, n) ==
    IF n <= Len(list) THEN Return(list[Len(list) - n + 1]) ELSE Raise("IndexError")

\* ---------------------------------------------------------------- extension

GZ == <<"g", "z">>

BZ2 == <<"b", "z", "2">>

\* extension(file_name) with the compression test on the last segment dropped.
extension_no_strip(file_name) == FromEnd(split(file_name, "."), 1)

\* extension(file_name) with the compression test inverted.
extension_inverted(file_name) ==
    LET parts == split(file_name, ".")
        last  == FromEnd(parts, 1).value
    IN  IF last = GZ \/ last = BZ2 THEN FromEnd(parts, 1) ELSE FromEnd(parts, 2)

\* s3namic.extension: the segment before a final gz/bz2 segment, else the
\* final segment.
extension(file_name) ==
    LET parts == split(file_name, ".")
        last  == FromEnd(parts, 1).value
    IN  IF last = GZ \/ last = BZ2 THEN FromEnd(parts, 2) ELSE FromEnd(parts, 1)

\* ------------------------------------------------------- specification: Ext

\* No read_thread call was made: the pool has no task and the two fields
\* _read_file stores to are not set.
NoOutcome == [kind |-> "none"]

MainIdle == [pc |-> "idle", next |-> 1, results |-> <<>>, pending |-> NoOutcome]

NoReadThread ==
    /\ params = [prefix |-> <<>>, delimiter |-> <<>>, extension |-> <<"None">>,
                 str_contains |-> <<"None">>, refused |-> <<"None">>]
    /\ workers = 0
    /\ files = <<>>
    /\ pc = <<>>
    /\ local = <<>>
    /\ future = <<>>
    /\ responses = <<>>
    /\ obj = 0
    /\ read_content = <<>>
    /\ nfetch = <<>>
    /\ main = MainIdle
    /\ outcome = NoOutcome
    /\ out = <<>>
    /\ ncalls = 0

\* The characters file names are drawn from: the separator and the letters of
\* the two compression suffixes.
NameAlphabet == {".", "g", "z", "b", "2"}

Names == StringsUpTo(NameAlphabet, MaxNameLen)

NoBucket == <<>>

NoCall == [op |-> "none"]

InitExt ==
    /\ bucket = NoBucket
    /\ call = NoCall
    /\ NoReadThread

CallExtension ==
    /\ call = NoCall
    /\ \E file_name \in Names :
          call' = [op |-> "extension", file_name |-> file_name,
                   result |-> extension(file_name)]
    /\ UNCHANGED <<bucket, threadVars>>

NextExt == CallExtension

SpecExt == InitExt /\ [][NextExt]_vars

\* -------------------------------------------------- claims about extension

DOT_GZ == <<".">> \o GZ

DOT_BZ2 == <<".">> \o BZ2

HasCompressionSuffix(k) == endswith(k, DOT_GZ) \/ endswith(k, DOT_BZ2)

\* k with its one trailing .gz or .bz2 removed.
StripSuffix(k) ==
    IF endswith(k, DOT_GZ) THEN Slice(k, 1, Len(k) - Len(DOT_GZ))
    ELSE IF endswith(k, DOT_BZ2) THEN Slice(k, 1, Len(k) - Len(DOT_BZ2))
    ELSE k

\* The substring of k after its last "." (k itself when it has none).
AfterLastDot(k) ==
    IF Positions(k, ".") = {} THEN k
    ELSE Slice(k, Max(Positions(k, ".")) + 1, Len(k))

ExtensionCalled == call.op = "extension"

\* C7 as stated: for every key k that ends in .gz or .bz2, extension(k)
\* equals extension(k with that one suffix removed), keys with two
\* compression suffixes (x.gz.gz, x.bz2.gz) included.
C7_StrippedSuffixSameTag ==
    (ExtensionCalled /\ HasCompressionSuffix(call.file_name))
        => call.result = extension(StripSuffix(call.file_name))

\* C7 amended: for every key k that ends in .gz or .bz2 and whose name with
\* that suffix removed does not again end in a gz or bz2 segment,
\* extension(k) equals extension(k with the suffix removed).
C7_SingleSuffixSameTag ==
    (/\ ExtensionCalled
     /\ HasCompressionSuffix(call.file_name)
     /\ AfterLastDot(StripSuffix(call.file_name)) \notin {GZ, BZ2})
        => call.result = extension(StripSuffix(call.file_name))

C7_Witness ==
    /\ ExtensionCalled
    /\ call.file_name = <<"2", ".", "b", ".", "g", "z">>
    /\ call.result = Return(<<"b">>)

\* C8: for every key k that contains a "." and whose final segment is
\* neither gz nor bz2, extension(k) is the substring of k after its last ".".
C8_PlainKeyLastSegment ==
    (/\ ExtensionCalled
     /\ Positions(call.file_name, ".") # {}
     /\ AfterLastDot(call.file_name) \notin {GZ, BZ2})
        => call.result = Return(AfterLastDot(call.file_name))

C8_Witness ==
    /\ ExtensionCalled
    /\ call.file_name = <<"g", "z", ".", "b", "z">>
    /\ call.result = Return(<<"b", "z">>)

\* C9: for every file name without a ".", extension(name) returns the name
\* itself and never raises, the names gz and bz2 included.
C9_NoDotReturnsName ==
    (ExtensionCalled /\ Positions(call.file_name, ".") = {})
        => call.result = Return(call.file_name)

\* ------------------------------------------------------------ object lister

\* Objects listed per page (the service's MaxKeys, scaled down).
PageSize == 2

\* Most objects in a snapshot.
MaxObjects == 4

\* The byte value of a character: a listing is in the byte order of its keys.
Ord(c) ==
    CASE c = "." -> 46 [] c = "/" -> 47 [] c = "1" -> 49 [] c = "2" -> 50
      [] c = "3" -> 51 [] c = "a" -> 97 [] c = "b" -> 98 [] c = "c" -> 99
      [] c = "g" -> 103 [] c = "s" -> 115 [] c = "t" -> 116 [] c = "v" -> 118
      [] c = "x" -> 120 [] c = "z" -> 122

\* s sorts strictly before t.
RECURSIVE LexLess(_, _)
LexLess(s, t) ==
    IF t = <<>> THEN FALSE
    ELSE IF s = <<>> THEN TRUE
    ELSE IF Head(s) = Head(t) THEN LexLess(Tail(s), Tail(t))
    ELSE Ord(Head(s)) < Ord(Head(t))

\* The strings of S in listing order.
RECURSIVE Sorted(_)
Sorted(S) ==
    IF S = {} THEN <<>>
    ELSE LET m == CHOOSE x \in S : \A y \in S \ {x} : LexLess(x, y)
         IN  <<m>> \o Sorted(S \ {m})

\* The object keys of the snapshot that start with prefix.
KeysUnder(prefix) == {k \in DOMAIN bucket : startswith(k, prefix)}

\* The part of key after prefix.
Rest(key, prefix) == Slice(key, Len(prefix) + 1, Len(key))

\* Where delimiter first occurs in s (0: nowhere; an empty delimiter groups
\* nothing).
Find(s, delimiter) ==
    LET at == {i \in 1..(Len(s) - Len(delimiter) + 1) :
                  Slice(s, i, i + Len(delimiter) - 1) = delimiter}
    IN  IF delimiter = <<>> \/ at = {} THEN 0 ELSE Min(at)

\* A roll-up that adds nothing to the prefix.
RollUp_no_progress(key, prefix, delimiter) == prefix

\* The common prefix a key is rolled up into: prefix and the rest of the key
\* up to and including the first delimiter.
RollUp(key, prefix, delimiter) ==
    Slice(key, 1, Len(prefix) + Find(Rest(key, prefix), delimiter) + Len(delimiter) - 1)

\* The keys listed as Contents at prefix: no delimiter after the prefix.
ContentKeys(prefix, delimiter) ==
    {k \in KeysUnder(prefix) : Find(Rest(k, prefix), delimiter) = 0}

\* The CommonPrefixes listed at prefix.
CommonPrefixes(prefix, delimiter) ==
    {RollUp(k, prefix, delimiter) : k \in KeysUnder(prefix) \ ContentKeys(prefix, delimiter)}

\* A response whose "Contents" repeats the common prefixes.
Page_prefixes_as_contents(entries, prefix, delimiter) ==
    [CommonPrefixes |-> SelectSeq(entries, LAMBDA e : e \in CommonPrefixes(prefix, delimiter)),
     Contents       |-> entries]

\* One response of list_objects_v2: the entries of a chunk of the listing,
\* common prefixes and contents apart, each in listing order.  An empty
\* sequence stands for the absent "CommonPrefixes" or "Contents" key.
Page(entries, prefix, delimiter) ==
    [CommonPrefixes |-> SelectSeq(entries, LAMBDA e : e \in CommonPrefixes(prefix, delimiter)),
     Contents       |-> SelectSeq(entries, LAMBDA e : e \in ContentKeys(prefix, delimiter))]

\* The listing cut into pages of n entries; an empty listing is one empty page.
RECURSIVE Chunks(_, _)
Chunks(entries, n) ==
    IF Len(entries) <= n THEN <<entries>>
    ELSE <<SubSeq(entries, 1, n)>> \o Chunks(SubSeq(entries, n + 1, Len(entries)), n)

\* paginator.paginate(Bucket, Prefix, Delimiter): the pages, in order.
paginate(prefix, delimiter) ==
    LET listing == Sorted(ContentKeys(prefix, delimiter) \cup CommonPrefixes(prefix, delimiter))
        chunks  == Chunks(listing, PageSize)
    IN  [i \in 1..Len(chunks) |-> Page(chunks[i], prefix, delimiter)]

\* -------------------------------------------------------------- tree builder

\* A dict is the sequence of its items in insertion order.  An item's value is
\* None (a file) or a dict (a sub-directory).
Item(key, is_none, tree) == [key |-> key, is_none |-> is_none, tree |-> tree]

NoneItem(key) == Item(key, TRUE, <<>>)

TreeItem(key, tree) == Item(key, FALSE, tree)

DictKeys(d) == {d[i].key : i \in 1..Len(d)}

\* d[key] = item: a new key is appended, an old one keeps its place.
DictSet(d, item) ==
    IF item.key \in DictKeys(d)
    THEN [i \in 1..Len(d) |-> IF d[i].key = item.key THEN item ELSE d[i]]
    ELSE Append(d, item)

\* d[key]
DictGet(d, key) == d[CHOOSE i \in 1..Len(d) : d[i].key = key]

\* tree[k] = None for every k of keys, in order.
RECURSIVE InsertContents(_, _)
InsertContents(tree, keys) ==
    IF keys = <<>> THEN tree
    ELSE InsertContents(DictSet(tree, NoneItem(Head(keys))), Tail(keys))

RECURSIVE make_tree(_, _, _)
RECURSIVE InsertPrefixes(_, _, _, _)
RECURSIVE TreeOverPages(_, _, _, _)

\* tree[p] = make_tree(p, delimiter, with_file_name) for every p of prefixes.
InsertPrefixes(tree, prefixes, delimiter, with_file_name) ==
    IF prefixes = <<>> THEN tree
    ELSE InsertPrefixes(
             DictSet(tree, TreeItem(Head(prefixes),
                                    make_tree(Head(prefixes), delimiter, with_file_name))),
             Tail(prefixes), delimiter, with_file_name)

\* The body of make_tree's loop with the with_file_name test left out.
TreeAfterPage_always_files(tree, response, delimiter, with_file_name) ==
    InsertContents(
        InsertPrefixes(tree, response.CommonPrefixes, delimiter, with_file_name),
        response.Contents)

\* The body of make_tree's loop over the responses.
TreeAfterPage(tree, response, delimiter, with_file_name) ==
    LET dirs == InsertPrefixes(tree, response.CommonPrefixes, delimiter, with_file_name)
    IN  IF with_file_name THEN InsertContents(dirs, response.Contents) ELSE dirs

TreeOverPages(tree, pages, delimiter, with_file_name) ==
    IF pages = <<>> THEN tree
    ELSE TreeOverPages(TreeAfterPage(tree, Head(pages), delimiter, with_file_name),
                       Tail(pages), delimiter, with_file_name)

\* s3namic.make_tree
make_tree(prefix, delimiter, with_file_name) ==
    TreeOverPages(<<>>, paginate(prefix, delimiter), delimiter, with_file_name)

\* -------------------------------------------------------------- file finder

None == <<"None">>

\* The first key of keys that matches file_name, or None.
RECURSIVE FirstMatch(_, _, _)
FirstMatch(keys, file_name, str_contains) ==
    IF keys = <<>> THEN None
    ELSE IF (IF str_contains THEN contains(file_name, Head(keys)) ELSE file_name = Head(keys))
    THEN Head(keys)
    ELSE FirstMatch(Tail(keys), file_name, str_contains)

\* The Contents of all pages, in order.
RECURSIVE AllContents(_)
AllContents(pages) ==
    IF pages = <<>> THEN <<>> ELSE Head(pages).Contents \o AllContents(Tail(pages))

\* The CommonPrefixes of all pages, in order.
RECURSIVE AllCommonPrefixes(_)
AllCommonPrefixes(pages) ==
    IF pages = <<>> THEN <<>> ELSE Head(pages).CommonPrefixes \o AllCommonPrefixes(Tail(pages))

RECURSIVE find_file(_, _, _, _)
RECURSIVE FirstInPrefixes(_, _, _, _)

\* find_file's second loop: the first sub-directory whose search finds a file.
FirstInPrefixes(prefixes, file_name, delimiter, str_contains) ==
    IF prefixes = <<>> THEN None
    ELSE LET file_path == find_file(file_name, Head(prefixes), delimiter, str_contains)
         IN  IF file_path # None THEN file_path
             ELSE FirstInPrefixes(Tail(prefixes), file_name, delimiter, str_contains)

\* find_file without the descent into the sub-directories.
find_file_shallow(file_name, prefix, delimiter, str_contains) ==
    FirstMatch(AllContents(paginate(prefix, delimiter)), file_name, str_contains)

\* find_file with its two loops swapped: the sub-directories are searched
\* before the files of the level.
find_file_deep_first(file_name, prefix, delimiter, str_contains) ==
    LET deep == FirstInPrefixes(AllCommonPrefixes(paginate(prefix, delimiter)),
                                file_name, delimiter, str_contains)
    IN  IF deep # None THEN deep
        ELSE FirstMatch(AllContents(paginate(prefix, delimiter)), file_name, str_contains)

\* s3namic.find_file
find_file(file_name, prefix, delimiter, str_contains) ==
    LET here == FirstMatch(AllContents(paginate(prefix, delimiter)), file_name, str_contains)
    IN  IF here # None THEN here
        ELSE FirstInPrefixes(AllCommonPrefixes(paginate(prefix, delimiter)),
                             file_name, delimiter, str_contains)

\* s3namic.find_files: the keys of the tree whose value is None.
find_files(prefix, delimiter) ==
    LET tree   == make_tree(prefix, delimiter, TRUE)
        leaves == SelectSeq(tree, LAMBDA item : item.is_none)
    IN  [i \in 1..Len(leaves) |-> leaves[i].key]

\* ------------------------------------------------------ specification: Tree

A1CSV == <<"a", "/", "1", ".", "c", "s", "v">>

A2CSV == <<"a", "/", "2", ".", "c", "s", "v">>

B3CSV == <<"b", "/", "3", ".", "c", "s", "v">>

AB3CSV == <<"a", "/", "b", "/", "3", ".", "c", "s", "v">>

CSV3 == <<"3", ".", "c", "s", "v">>

AC3 == <<"a", "/", "c", "3">>

\* The keys a snapshot is drawn from: the example's, a deeper one, one at the
\* root, a folder marker, a file named like a folder and a file listed after
\* a sub-directory of its level.
KeyUniverse == {A1CSV, A2CSV, B3CSV, AB3CSV, CSV3, <<"a", "/">>, <<"a">>, AC3}

Prefixes == {<<>>, <<"a">>, <<"a", "/">>, <<"b", "/">>, <<"a", "/", "b", "/">>}

Delimiters == {<<"/">>, <<>>, <<".">>}

FileNames == {CSV3, <<"3">>, <<"a">>, A1CSV, <<"x">>}

\* What is stored under a key does not matter to a listing.
Snapshots ==
    {[k \in K |-> <<>>] : K \in {K \in SUBSET KeyUniverse : Cardinality(K) <= MaxObjects}}

InitTree ==
    /\ bucket \in Snapshots
    /\ call = NoCall
    /\ NoReadThread

CallMakeTree ==
    /\ call = NoCall
    /\ \E prefix \in Prefixes, delimiter \in Delimiters, with_file_name \in BOOLEAN :
          call' = [op |-> "make_tree", prefix |-> prefix, delimiter |-> delimiter,
                   with_file_name |-> with_file_name,
                   result |-> make_tree(prefix, delimiter, with_file_name)]
    /\ UNCHANGED <<bucket, threadVars>>

CallFindFile ==
    /\ call = NoCall
    /\ \E file_name \in FileNames, prefix \in Prefixes, delimiter \in Delimiters,
          str_contains \in BOOLEAN :
          call' = [op |-> "find_file", file_name |-> file_name, prefix |-> prefix,
                   delimiter |-> delimiter, str_contains |-> str_contains,
                   result |-> find_file(file_name, prefix, delimiter, str_contains)]
    /\ UNCHANGED <<bucket, threadVars>>

CallFindFiles ==
    /\ call = NoCall
    /\ \E prefix \in Prefixes, delimiter \in Delimiters :
          call' = [op |-> "find_files", prefix |-> prefix, delimiter |-> delimiter,
                   result |-> find_files(prefix, delimiter)]
    /\ UNCHANGED <<bucket, threadVars>>

NextTree == CallMakeTree \/ CallFindFile \/ CallFindFiles

SpecTree == InitTree /\ [][NextTree]_vars

\* ------------------------------------- the recursion of the two walks

\* Most nested calls the interpreter allows (sys.getrecursionlimit(), scaled
\* down): the call past it raises RecursionError.
RecursionLimit == 12

Dir(key) == [kind |-> "dir", key |-> key]

File(key) == [kind |-> "file", key |-> key]

\* The iterations of make_tree's loops, in order: per response the common
\* prefixes, then, with with_file_name, the contents.
RECURSIVE LoopItems(_, _)
LoopItems(pages, with_file_name) ==
    IF pages = <<>> THEN <<>>
    ELSE LET dirs  == Head(pages).CommonPrefixes
             files_ == IF with_file_name THEN Head(pages).Contents ELSE <<>>
         IN  [i \in 1..Len(dirs) |-> Dir(dirs[i])] \o [i \in 1..Len(files_) |-> File(files_[i])]
                 \o LoopItems(Tail(pages), with_file_name)

\* The frame of a make_tree call at its first iteration: tree = {}.
MakeTreeFrame(prefix, delimiter, with_file_name) ==
    [prefix |-> prefix,
     todo   |-> LoopItems(paginate(prefix, delimiter), with_file_name),
     value  |-> <<>>]

\* The frame of a find_file call after its first loop: a match among the
\* contents is the value to return, else the common prefixes are to search.
FindFileFrame(file_name, prefix, delimiter, str_contains) ==
    LET pages == paginate(prefix, delimiter)
        here  == FirstMatch(AllContents(pages), file_name, str_contains)
        dirs  == AllCommonPrefixes(pages)
    IN  [prefix |-> prefix,
         todo   |-> IF here # None THEN <<>> ELSE [i \in 1..Len(dirs) |-> Dir(dirs[i])],
         value  |-> here]

\* The frame of the call that is executing.
Top == call.stack[Len(call.stack)]

InCall(op) == call.op = op /\ call.stack # <<>>

\* The call stack once the executing call calls itself with frame, and the
\* end of the whole call when the interpreter refuses the nesting.
Called(frame) ==
    IF Len(call.stack) >= RecursionLimit
    THEN [call EXCEPT !.stack = <<>>, !.result = Raise("RecursionError")]
    ELSE [call EXCEPT !.stack = Append([@ EXCEPT ![Len(@)].todo = Tail(@)], frame)]

\* The frame of the call that called the executing one.
Caller == call.stack[Len(call.stack) - 1]

\* The call stack once the executing call, a nested one, returns and its
\* caller's value becomes taken.
Returned(taken) ==
    [call EXCEPT !.stack =
        [i \in 1..(Len(@) - 1) |->
            IF i = Len(@) - 1 THEN [@[i] EXCEPT !.value = taken] ELSE @[i]]]

\* The outermost call returns its value.
Ended == [call EXCEPT !.stack = <<>>, !.result = Return(Top.value)]

InitWalk ==
    /\ bucket \in Snapshots
    /\ call = NoCall
    /\ NoReadThread

\* s3.make_tree(prefix, delimiter, with_file_name) is called.
MakeTreeCall ==
    /\ call = NoCall
    /\ \E prefix \in Prefixes, delimiter \in Delimiters, with_file_name \in BOOLEAN :
          call' = [op |-> "make_tree", prefix |-> prefix, delimiter |-> delimiter,
                   with_file_name |-> with_file_name,
                   stack |-> <<MakeTreeFrame(prefix, delimiter, with_file_name)>>,
                   result |-> NoOutcome]
    /\ UNCHANGED <<bucket, threadVars>>

\* tree[file["Prefix"]] = self.make_tree(file["Prefix"], ...): the call.
MakeTreeDescend ==
    /\ InCall("make_tree")
    /\ Top.todo # <<>>
    /\ Head(Top.todo).kind = "dir"
    /\ call' = Called(MakeTreeFrame(Head(Top.todo).key, call.delimiter, call.with_file_name))
    /\ UNCHANGED <<bucket, threadVars>>

\* tree[file["Key"]] = None
MakeTreeFile ==
    /\ InCall("make_tree")
    /\ Top.todo # <<>>
    /\ Head(Top.todo).kind = "file"
    /\ call' = [call EXCEPT !.stack[Len(call.stack)] =
                   [@ EXCEPT !.todo  = Tail(@),
                             !.value = DictSet(@, NoneItem(Head(Top.todo).key))]]
    /\ UNCHANGED <<bucket, threadVars>>

\* return tree, and the caller's assignment of it to tree[file["Prefix"]].
MakeTreeReturn ==
    /\ InCall("make_tree")
    /\ Top.todo = <<>>
    /\ call' = IF Len(call.stack) = 1 THEN Ended
                ELSE Returned(DictSet(Caller.value, TreeItem(Top.prefix, Top.value)))
    /\ UNCHANGED <<bucket, threadVars>>

\* s3.find_file(file_name, prefix, delimiter, str_contains) is called.
FindFileCall ==
    /\ call = NoCall
    /\ \E file_name \in FileNames, prefix \in Prefixes, delimiter \in Delimiters,
          str_contains \in BOOLEAN :
          call' = [op |-> "find_file", file_name |-> file_name, prefix |-> prefix,
                   delimiter |-> delimiter, str_contains |-> str_contains,
                   stack |-> <<FindFileFrame(file_name, prefix, delimiter, str_contains)>>,
                   result |-> NoOutcome]
    /\ UNCHANGED <<bucket, threadVars>>

\* file_path = self.find_file(file_name, file["Prefix"], ...): the call.
FindFileDescend ==
    /\ InCall("find_file")
    /\ Top.value = None
    /\ Top.todo # <<>>
    /\ call' = Called(FindFileFrame(call.file_name, Head(Top.todo).key, call.delimiter,
                                    call.str_contains))
    /\ UNCHANGED <<bucket, threadVars>>

\* return file_path or return None; the caller returns what it got unless
\* it is None.
FindFileReturn ==
    /\ InCall("find_file")
    /\ Top.value # None \/ Top.todo = <<>>
    /\ call' = IF Len(call.stack) = 1 THEN Ended ELSE Returned(Top.value)
    /\ UNCHANGED <<bucket, threadVars>>

NextWalk ==
    \/ MakeTreeCall
    \/ MakeTreeDescend
    \/ MakeTreeFile
    \/ MakeTreeReturn
    \/ FindFileCall
    \/ FindFileDescend
    \/ FindFileReturn

SpecWalk == InitWalk /\ [][NextWalk]_vars

\* -------------------------------------------------- read_auto and the readers

CSV == <<"c", "s", "v">>

JSON == <<"j", "s", "o", "n">>

TXT == <<"t", "x", "t">>

SQL == <<"s", "q", "l">>

PKL == <<"p", "k", "l">>

PARQUET == <<"p", "a", "r", "q", "u", "e", "t">>

EXCEL == <<"e", "x", "c", "e", "l">>

IMAGE == <<"i", "m", "a", "g", "e">>

\* The list read_auto tests the extension against, with excel let in.
SupportedTags_with_excel == {CSV, JSON, TXT, SQL, PKL, PARQUET, EXCEL}

\* The list read_auto tests the extension against.
SupportedTags == {CSV, JSON, TXT, SQL, PKL, PARQUET}

\* The tags t for which the class has a method read_<t>.
Readers == {CSV, EXCEL, JSON, TXT, PKL, PARQUET, IMAGE}

\* gzip.compress / bz2.compress: the bytes behind a codec mark.
Compressed(codec, data) == <<codec>> \o data

\* The codec _read_file picks from the name.
CompressOf(file_name) ==
    IF endswith(file_name, <<".">> \o GZ) THEN "gzip"
    ELSE IF endswith(file_name, <<".">> \o BZ2) THEN "bz2"
    ELSE "None"

\* gzip.decompress / bz2.decompress (codec "None": the bytes as read).  Empty
\* input decompresses to empty output; input of another format raises.
Decompress(codec, data) ==
    IF codec = "None" \/ data = <<>> THEN Return(data)
    ELSE IF Head(data) = codec THEN Return(Tail(data))
    ELSE Raise("OSError")

\* The decoded content of bytes read as format tag.
Decoded(tag, data) == [format |-> tag, content |-> data]

\* What reader read_<tag> makes of self.read_content.
Decode(tag, data) ==
    IF tag = CSV THEN (IF data = <<>> THEN Raise("IndexError") ELSE Return(Decoded(tag, data)))
    ELSE IF tag = JSON THEN (IF data = <<>> THEN Raise("JSONDecodeError") ELSE Return(Decoded(tag, data)))
    ELSE IF tag = TXT THEN Return(Decoded(tag, data))
    ELSE IF tag = PKL THEN Raise("TypeError")
    ELSE IF data = <<>> THEN Raise("ValueError")
    ELSE Return(Decoded(tag, data))

\* read_auto up to its dispatch: the format tag to read with, or the error
\* the call ends in before any reader runs.
Dispatch(file_name, extension_arg) ==
    LET tag == IF extension_arg = None THEN extension(file_name) ELSE Return(extension_arg)
    IN  IF tag.kind = "raise" THEN tag
        ELSE IF tag.value \notin SupportedTags THEN Raise("TypeError")
        ELSE IF tag.value \notin Readers THEN Raise("AttributeError")
        ELSE tag

\* ------------------------------------------------- read_thread, _thread_map

\* Most worker threads of a pool.
MaxWorkers == 2

\* Most read_thread calls in a run.
MaxCalls == 2

Pending == [kind |-> "pending"]

Tasks == 1..Len(files)

Running == {t \in Tasks : pc[t] \notin {"queued", "cancelled", "done"}}

\* read_thread's file list: find_files, then the str_contains filter.
FileList(prefix, delimiter, str_contains) ==
    LET found == find_files(prefix, delimiter)
    IN  IF str_contains = None THEN found
        ELSE SelectSeq(found, LAMBDA file : contains(str_contains, file))

\* read_thread up to the submission of one task per file to a pool of w threads.
read_thread(w) ==
    /\ main.pc = "idle"
    /\ ncalls < MaxCalls
    /\ files' = FileList(params.prefix, params.delimiter, params.str_contains)
    /\ workers' = w
    /\ pc' = [t \in 1..Len(files') |-> "queued"]
    /\ local' = [t \in 1..Len(files') |-> [tag |-> <<>>, o |-> 0, data |-> <<>>]]
    /\ future' = [t \in 1..Len(files') |-> Pending]
    /\ responses' = [t \in 1..Len(files') |-> <<>>]
    /\ nfetch' = [t \in 1..Len(files') |-> 0]
    /\ main' = [pc |-> "collect", next |-> 1, results |-> <<>>, pending |-> NoOutcome]
    /\ outcome' = NoOutcome
    /\ ncalls' = ncalls + 1
    /\ UNCHANGED <<bucket, call, params, obj, read_content, out>>

\* A worker thread takes the next work item off the queue.
TaskStart(t) ==
    /\ pc[t] = "queued"
    /\ \A u \in Tasks : u < t => pc[u] # "queued"
    /\ Cardinality(Running) < workers
    /\ pc' = [pc EXCEPT ![t] = "read_auto"]
    /\ UNCHANGED <<bucket, call, params, workers, files, local, future, responses,
                   obj, read_content, nfetch, main, outcome, out, ncalls>>

\* read_auto: the tag is picked and the reader looked up, or the call raises.
ReadAuto(t) ==
    /\ pc[t] = "read_auto"
    /\ LET d == Dispatch(files[t], params.extension)
       IN  IF d.kind = "raise"
           THEN /\ future' = [future EXCEPT ![t] = d]
                /\ pc' = [pc EXCEPT ![t] = "done"]
                /\ local' = local
           ELSE /\ local' = [local EXCEPT ![t].tag = d.value]
                /\ pc' = [pc EXCEPT ![t] = "get_object"]
                /\ future' = future
    /\ UNCHANGED <<bucket, call, params, workers, files, responses, obj,
                   read_content, nfetch, main, outcome, out, ncalls>>

\* _read_file: self.__obj = self.__s3.get_object(Bucket, Key).  An error of
\* the store propagates and self.__obj is left as it was.
GetObject(t) ==
    /\ pc[t] = "get_object"
    /\ nfetch' = [nfetch EXCEPT ![t] = @ + 1]
    /\ IF files[t] = params.refused
       THEN /\ future' = [future EXCEPT ![t] = Raise("ClientError")]
            /\ pc' = [pc EXCEPT ![t] = "done"]
            /\ UNCHANGED <<responses, obj>>
       ELSE /\ responses' = [responses EXCEPT ![t] = bucket[files[t]]]
            /\ obj' = t
            /\ pc' = [pc EXCEPT ![t] = "load_obj"]
            /\ future' = future
    /\ UNCHANGED <<bucket, call, params, workers, files, local,
                   read_content, main, outcome, out, ncalls>>

\* _read_file: the load of self.__obj in self.__obj["Body"]
LoadObj(t) ==
    /\ pc[t] = "load_obj"
    /\ local' = [local EXCEPT ![t].o = obj]
    /\ pc' = [pc EXCEPT ![t] = "read_body"]
    /\ UNCHANGED <<bucket, call, params, workers, files, future, responses, obj,
                   read_content, nfetch, main, outcome, out, ncalls>>

\* _read_file: Body.read() takes what is left of the stream, then the
\* decompression the name asks for.
ReadBody(t) ==
    /\ pc[t] = "read_body"
    /\ responses' = [responses EXCEPT ![local[t].o] = <<>>]
    /\ LET data == Decompress(CompressOf(files[t]), responses[local[t].o])
       IN  IF data.kind = "raise"
           THEN /\ future' = [future EXCEPT ![t] = data]
                /\ pc' = [pc EXCEPT ![t] = "done"]
                /\ local' = local
           ELSE /\ local' = [local EXCEPT ![t].data = data.value]
                /\ pc' = [pc EXCEPT ![t] = "store_content"]
                /\ future' = future
    /\ UNCHANGED <<bucket, call, params, workers, files, obj, read_content, nfetch,
                   main, outcome, out, ncalls>>

\* _read_file: self.read_content = ...
StoreContent(t) ==
    /\ pc[t] = "store_content"
    /\ read_content' = local[t].data
    /\ pc' = [pc EXCEPT ![t] = "decode"]
    /\ UNCHANGED <<bucket, call, params, workers, files, local, future, responses,
                   obj, nfetch, main, outcome, out, ncalls>>

\* The reader: the load of self.read_content and its decoding.
ReaderDecode(t) ==
    /\ pc[t] = "decode"
    /\ future' = [future EXCEPT ![t] = Decode(local[t].tag, read_content)]
    /\ pc' = [pc EXCEPT ![t] = "done"]
    /\ UNCHANGED <<bucket, call, params, workers, files, local, responses, obj,
                   read_content, nfetch, main, outcome, out, ncalls>>

\* list(executor.map(...)) that leaves a failed task's entry out.
Collected_skip_errors(m, f) ==
    [m EXCEPT !.next = @ + 1,
              !.results = IF f.kind = "return" THEN Append(@, f.value) ELSE @]

\* list(executor.map(...)) on the next future, once it is done: its value is
\* appended, or its exception ends the iteration.
Collected(m, f) ==
    IF f.kind = "return"
    THEN [m EXCEPT !.next = @ + 1, !.results = Append(@, f.value)]
    ELSE [m EXCEPT !.pc = "shutdown", !.pending = f]

\* The calling thread takes the result of the next future; on an exception
\* the futures not yet running are cancelled.
Collect ==
    /\ main.pc = "collect"
    /\ main.next <= Len(files)
    /\ future[main.next] # Pending
    /\ main' = Collected(main, future[main.next])
    /\ pc' = IF main'.pc = "shutdown"
             THEN [t \in Tasks |-> IF pc[t] = "queued" THEN "cancelled" ELSE pc[t]]
             ELSE pc
    /\ UNCHANGED <<bucket, call, params, workers, files, local, future, responses,
                   obj, read_content, nfetch, outcome, out, ncalls>>

\* Every future gave its value: the list is complete.
ListDone ==
    /\ main.pc = "collect"
    /\ main.next > Len(files)
    /\ main' = [main EXCEPT !.pc = "shutdown", !.pending = Return(main.results)]
    /\ UNCHANGED <<bucket, call, params, workers, files, pc, local, future,
                   responses, obj, read_content, nfetch, outcome, out, ncalls>>

\* The with block ends: shutdown(wait=True) joins the workers, and
\* read_thread returns the list or raises the exception.
Shutdown ==
    /\ main.pc = "shutdown"
    /\ Running = {}
    /\ outcome' = main.pending
    /\ out' = [out EXCEPT ![workers] = main.pending]
    /\ main' = [main EXCEPT !.pc = "idle"]
    /\ UNCHANGED <<bucket, call, params, workers, files, pc, local, future,
                   responses, obj, read_content, nfetch, ncalls>>

\* ---------------------------------------------------- specification: Thread

A2GZ == <<"a", "/", "2", ".", "g", "z">>

\* What each object of the snapshot holds: the example's three files and a
\* gzipped file whose name gives no supported format.
ThreadSnapshot ==
    (A1CSV :> <<"one">>) @@ (A2CSV :> <<"two">>) @@ (B3CSV :> <<"three">>)
        @@ (A2GZ :> Compressed("gzip", <<"four">>))

\* The calls studied: the tag derived or given (each of the six read_auto
\* lists, or excel, which it does not), all files of a/ or those with "csv"
\* or "2" in the key, and the store refusing a/2.csv or nothing.  The listed
\* overrides are studied on the filtered lists, which hold two files.
ThreadParams ==
    {p \in [prefix : {<<"a", "/">>}, delimiter : {<<"/">>},
            extension : {None, CSV, JSON, TXT, SQL, PKL, PARQUET, EXCEL},
            str_contains : {None, CSV, <<"2">>},
            refused : {None, A2CSV}] :
        p.extension \in {CSV, JSON, TXT, SQL, PKL, PARQUET} => p.str_contains # None}

InitThread ==
    /\ bucket = ThreadSnapshot
    /\ call = NoCall
    /\ params \in ThreadParams
    /\ workers = 0
    /\ files = <<>>
    /\ pc = <<>>
    /\ local = <<>>
    /\ future = <<>>
    /\ responses = <<>>
    /\ obj = 0
    /\ read_content = <<>>
    /\ nfetch = <<>>
    /\ main = MainIdle
    /\ outcome = NoOutcome
    /\ out = [w \in 1..MaxWorkers |-> NoOutcome]
    /\ ncalls = 0

NextThread ==
    \/ \E w \in 1..MaxWorkers : read_thread(w)
    \/ \E t \in Tasks : TaskStart(t)
    \/ \E t \in Tasks : ReadAuto(t)
    \/ \E t \in Tasks : GetObject(t)
    \/ \E t \in Tasks : LoadObj(t)
    \/ \E t \in Tasks : ReadBody(t)
    \/ \E t \in Tasks : StoreContent(t)
    \/ \E t \in Tasks : ReaderDecode(t)
    \/ Collect
    \/ ListDone
    \/ Shutdown

SpecThread == InitThread /\ [][NextThread]_vars

\* ----------------------------------------------- compress and decompress

\* Longest key of an object to compress.
MaxKeyLen == 5

\* str.replace(old, ""): every occurrence of old, left to right, is removed.
RECURSIVE replace(_, _)
replace(s, old) ==
    IF Len(s) < Len(old) THEN s
    ELSE IF startswith(s, old) THEN replace(Slice(s, Len(old) + 1, Len(s)), old)
    ELSE <<Head(s)>> \o replace(Tail(s), old)

\* The suffix compress gives the key it writes for a method.
Suffix(compression) == IF compression = "gzip" THEN <<".">> \o GZ ELSE <<".">> \o BZ2

\* _read_file without concurrency: the content of the object at file_name, the
\* compression its name tells undone, or get_object's or the codec's error.
ReadFile(file_name) ==
    IF file_name \notin DOMAIN bucket THEN Raise("ClientError")
    ELSE Decompress(CompressOf(file_name), bucket[file_name])

\* _write_file: the key and the body it puts.
WriteFile(file_name, file_content, compression) ==
    IF compression \in {"gzip", "bz2"}
    THEN [Key  |-> IF endswith(file_name, Suffix(compression)) THEN file_name
                   ELSE file_name \o Suffix(compression),
          Body |-> Compressed(compression, file_content)]
    ELSE [Key |-> file_name, Body |-> file_content]

\* put_object: the store after the request, or the rejection of an empty key.
PutObject(request) ==
    IF request.Key = <<>> THEN Raise("ParamValidationError")
    ELSE Return([k \in DOMAIN bucket \cup {request.Key} |->
                    IF k = request.Key THEN request.Body ELSE bucket[k]])

\* What a key of the snapshot may hold: plain bytes or compressed ones.
Contents ==
    {<<"data">>, Compressed("gzip", <<"data">>), Compressed("bz2", <<"data">>)}

Keys == StringsUpTo(NameAlphabet, MaxKeyLen) \ {<<>>}

\* A bucket with one object.
InitCompress ==
    /\ \E k \in Keys, b \in Contents : bucket = (k :> b)
    /\ call = NoCall
    /\ NoReadThread

\* The fields _read_file leaves set, and the store and the outcome of the
\* _write_file that follows it when the read succeeded.
ReadThenWrite(read, request, put) ==
    /\ responses' = <<<<>>>>
    /\ obj' = IF read = Raise("ClientError") THEN obj ELSE 1
    /\ read_content' = IF read.kind = "return" THEN read.value ELSE read_content
    /\ bucket' = IF read.kind = "return" /\ put.kind = "return" THEN put.value ELSE bucket

\* s3.compress(file_name, compression) on an object of the bucket.
compress ==
    /\ call = NoCall
    /\ \E file_name \in DOMAIN bucket, compression \in {"gzip", "bz2"} :
          LET read    == ReadFile(file_name)
              request == WriteFile(file_name \o Suffix(compression),
                                   Compressed(compression, read.value), "None")
              put     == PutObject(request)
          IN  /\ ReadThenWrite(read, request, put)
              /\ call' = [op |-> "compress", file_name |-> file_name,
                          compression |-> compression, before |-> bucket,
                          written |-> IF read.kind = "return" /\ put.kind = "return"
                                      THEN {request.Key} ELSE {},
                          result |-> IF read.kind = "raise" THEN read
                                     ELSE IF put.kind = "raise" THEN put
                                     ELSE Return(None)]
    /\ UNCHANGED <<params, workers, files, pc, local, future, nfetch, main, outcome,
                   out, ncalls>>

\* s3.decompress(file_name) on an object of the bucket, after a compress that
\* returned.
decompress ==
    /\ call.op = "compress"
    /\ call.result.kind = "return"
    /\ \E file_name \in DOMAIN bucket :
          LET read    == ReadFile(file_name)
              request == WriteFile(replace(replace(file_name, <<".">> \o GZ), <<".">> \o BZ2),
                                   read.value, "None")
              put     == PutObject(request)
          IN  /\ ReadThenWrite(read, request, put)
              /\ call' = [op |-> "decompress", file_name |-> file_name,
                          compressed |-> call, before |-> call.before,
                          written |-> call.written \cup
                                      (IF read.kind = "return" /\ put.kind = "return"
                                       THEN {request.Key} ELSE {}),
                          result |-> IF read.kind = "raise" THEN read
                                     ELSE IF put.kind = "raise" THEN put
                                     ELSE Return(None)]
    /\ UNCHANGED <<params, workers, files, pc, local, future, nfetch, main, outcome,
                   out, ncalls>>

NextCompress == compress \/ decompress

SpecCompress == InitCompress /\ [][NextCompress]_vars

\* ------------------------------- claims about read_auto and read_thread

\* A read_thread call has ended.
ReadThreadEnded == main.pc = "idle" /\ ncalls > 0

\* The bytes an object holds once the compression its key names is undone.
PlainContent(key) ==
    IF bucket[key] # <<>> /\ Head(bucket[key]) \in {"gzip", "bz2"}
    THEN Tail(bucket[key])
    ELSE bucket[key]

\* The format tag asked for a key: the override, else the key's extension.
RequestedTag(key) ==
    IF params.extension = None THEN extension(key) ELSE Return(params.extension)

\* C2: when read_thread returns, result[i] is the decoded content of the
\* object stored at key[i], whatever the interleaving of the workers.
C2_ResultIsContentOfKey ==
    (ReadThreadEnded /\ outcome.kind = "return") =>
        /\ Len(outcome.value) = Len(files)
        /\ \A i \in 1..Len(files) :
               outcome.value[i] = Decoded(RequestedTag(files[i]).value, PlainContent(files[i]))

\* C3: read_thread returns one result per key of find_files(prefix,
\* delimiter) that contains str_contains, and runs that differ only in the
\* worker count return identical ordered output.
C3_OutputIndependentOfWorkers ==
    /\ (ReadThreadEnded /\ outcome.kind = "return") =>
           Len(outcome.value) =
               Len(SelectSeq(find_files(params.prefix, params.delimiter),
                             LAMBDA k : params.str_contains = None
                                            \/ contains(params.str_contains, k)))
    /\ \A w1, w2 \in DOMAIN out :
           (out[w1] # NoOutcome /\ out[w2] # NoOutcome /\ out[w1].kind = "return")
               => out[w1] = out[w2]

\* The tasks of the ended call that raised.
Failed == {t \in Tasks : future[t].kind = "raise"}

\* C4: if a decode task of a read_thread call ends in an error, the call
\* ends in an error, that of the first failed task in key order (the one
\* failed task's, when one failed), and returns no list; a returned list
\* holds every task's own value, none dropped or replaced.
C4_TaskErrorEndsTheCall ==
    ReadThreadEnded =>
        /\ Failed # {} => outcome = future[Min(Failed)]
        /\ outcome.kind = "return" =>
               /\ Failed = {}
               /\ Len(outcome.value) = Len(files)
               /\ \A i \in 1..Len(files) : outcome.value[i] = future[i].value

C4_Witness ==
    /\ ReadThreadEnded
    /\ workers = 2
    /\ Len(files) = 3
    /\ Failed = {3}
    /\ future[1].kind = "return"
    /\ outcome = Raise("TypeError")

\* C10: for every format tag outside {csv, json, txt, sql, pkl, parquet},
\* given as the override or derived from the key, read_auto ends in an error,
\* issues no fetch of the object and returns no value.
C10_UnsupportedTagIsAnError ==
    \A t \in Tasks :
        LET tag == RequestedTag(files[t])
        IN  (tag.kind = "return" /\ tag.value \notin {CSV, JSON, TXT, SQL, PKL, PARQUET})
                => /\ nfetch[t] = 0
                   /\ responses[t] = <<>>
                   /\ pc[t] \in {"queued", "cancelled", "read_auto", "done"}
                   /\ future[t].kind # "return"
                   /\ pc[t] = "done" => future[t].kind = "raise"

C10_Witness ==
    \E t, u \in Tasks :
        /\ files[t] = A2GZ
        /\ params.extension = None
        /\ pc[t] = "done"
        /\ future[t] = Raise("TypeError")
        /\ nfetch[t] = 0
        /\ nfetch[u] = 1

\* C11: during a read_thread call with two or more workers no decode task
\* reads a variable another task of the call writes: the handle a task reads
\* its body from is the one its own fetch stored, and the content it decodes
\* is the buffer it read itself.
C11_TasksShareNoState ==
    workers >= 2 =>
        \A t \in Tasks :
            /\ local[t].o \in {0, t}
            /\ (pc[t] = "done" /\ future[t].kind = "return")
                   => future[t].value.content = local[t].data

\* C15: for each of the six tags read_auto lists (csv, json, txt, sql, pkl,
\* parquet), given or derived, read_auto runs a reader that fetches the
\* object once and returns its decoded content: when the store does not
\* refuse the key, the task returns.  Stated for one worker, where the tasks
\* run one after the other and none disturbs another's fetch.
C15_ListedTagsAreRead ==
    \A t \in Tasks :
        LET tag == RequestedTag(files[t])
        IN  (/\ workers = 1
             /\ pc[t] = "done"
             /\ tag.kind = "return"
             /\ tag.value \in {CSV, JSON, TXT, SQL, PKL, PARQUET}
             /\ files[t] # params.refused)
                => /\ nfetch[t] = 1
                   /\ future[t] = Return(Decoded(tag.value, PlainContent(files[t])))

\* ----------------------------------- claims about the tree and the finder

Range(seq) == {seq[i] : i \in 1..Len(seq)}

\* The keys valued None at any depth of a tree.
RECURSIVE AllLeaves(_)
AllLeaves(tree) ==
    UNION {IF tree[i].is_none THEN {tree[i].key} ELSE AllLeaves(tree[i].tree) :
           i \in 1..Len(tree)}

ExampleSnapshot == DOMAIN bucket = {A1CSV, A2CSV, B3CSV}

\* C1: find_files(prefix, delimiter) returns exactly the object keys stored
\* under prefix at any depth, which are the None entries at any nesting level
\* of make_tree(prefix, delimiter, with_file_name=True).
C1_FindFilesAllDepths ==
    call.op = "find_files" =>
        /\ Range(call.result) = KeysUnder(call.prefix)
        /\ Range(call.result) = AllLeaves(make_tree(call.prefix, call.delimiter, TRUE))

\* The keys under prefix that file_name matches.
Matching(file_name, prefix, str_contains) ==
    {k \in KeysUnder(prefix) :
        IF str_contains THEN contains(file_name, k) ELSE file_name = k}

\* C5: find_file returns a key under prefix that matches name whenever one
\* exists at any depth, and returns None if and only if none exists.
C5_FindFileFindsAMatch ==
    call.op = "find_file" =>
        LET matching == Matching(call.file_name, call.prefix, call.str_contains)
        IN  /\ matching # {} => call.result \in matching
            /\ call.result = None <=> matching = {}

C5_Witness ==
    /\ call.op = "find_file"
    /\ call.prefix = <<>>
    /\ call.delimiter = <<"/">>
    /\ call.file_name = CSV3
    /\ call.str_contains
    /\ CSV3 \notin DOMAIN bucket
    /\ call.result = AB3CSV

\* Whether a tree holds a None entry at any depth.
HasNone(tree) == AllLeaves(tree) # {}

\* C6: make_tree(prefix, delimiter, with_file_name) maps every common prefix
\* p listed by a page at prefix to make_tree(p, delimiter, with_file_name)
\* and, only when with_file_name is true, every content key listed at prefix
\* to None, and holds nothing else; the example's tree is as the spec gives
\* it, and without with_file_name no None appears at any depth.
C6_TreeEntries ==
    call.op = "make_tree" =>
        LET pages    == paginate(call.prefix, call.delimiter)
            prefixes == Range(AllCommonPrefixes(pages))
            contents == Range(AllContents(pages))
            tree     == call.result
        IN  /\ Cardinality(DictKeys(tree)) = Len(tree)
            /\ DictKeys(tree) =
                   prefixes \cup (IF call.with_file_name THEN contents ELSE {})
            /\ \A p \in prefixes :
                   DictGet(tree, p) =
                       TreeItem(p, make_tree(p, call.delimiter, call.with_file_name))
            /\ call.with_file_name => \A k \in contents : DictGet(tree, k) = NoneItem(k)
            /\ ~call.with_file_name => ~HasNone(tree)
            /\ (/\ ExampleSnapshot
                /\ call.prefix = <<>>
                /\ call.delimiter = <<"/">>
                /\ call.with_file_name)
                   => tree = <<TreeItem(<<"a", "/">>, <<NoneItem(A1CSV), NoneItem(A2CSV)>>),
                               TreeItem(<<"b", "/">>, <<NoneItem(B3CSV)>>)>>

C6_Witness ==
    /\ call.op = "make_tree"
    /\ ExampleSnapshot
    /\ call.prefix = <<>>
    /\ call.delimiter = <<"/">>
    /\ call.with_file_name
    /\ call.result = <<TreeItem(<<"a", "/">>, <<NoneItem(A1CSV), NoneItem(A2CSV)>>),
                       TreeItem(<<"b", "/">>, <<NoneItem(B3CSV)>>)>>

\* Whether file_name matches key.
Matches(file_name, key, str_contains) ==
    IF str_contains THEN contains(file_name, key) ELSE file_name = key

\* C12: find_file scans the content keys of all pages of the level before it
\* descends: when a key of the level matches, the result is the first such
\* key in page order, even if a deeper key matches too; otherwise it is the
\* result of the search in the first common prefix, in listing order, whose
\* subtree holds a match, and None if there is none.
C12_LevelBeforeDescent ==
    call.op = "find_file" =>
        LET pages    == paginate(call.prefix, call.delimiter)
            contents == AllContents(pages)
            prefixes == AllCommonPrefixes(pages)
            here     == {i \in 1..Len(contents) :
                            Matches(call.file_name, contents[i], call.str_contains)}
            below    == {i \in 1..Len(prefixes) :
                            Matching(call.file_name, prefixes[i], call.str_contains) # {}}
        IN  /\ \A i \in 1..(Len(contents) - 1) : LexLess(contents[i], contents[i + 1])
            /\ \A i \in 1..(Len(prefixes) - 1) : LexLess(prefixes[i], prefixes[i + 1])
            /\ here # {} => call.result = contents[Min(here)]
            /\ (here = {} /\ below # {}) =>
                   /\ call.result = find_file(call.file_name, prefixes[Min(below)],
                                              call.delimiter, call.str_contains)
                   /\ call.result \in Matching(call.file_name, prefixes[Min(below)],
                                                call.str_contains)
            /\ (here = {} /\ below = {}) => call.result = None

\* A file of the level wins over a match in a sub-directory listed before it.
C12_Witness ==
    /\ call.op = "find_file"
    /\ call.prefix = <<"a", "/">>
    /\ call.delimiter = <<"/">>
    /\ call.file_name = <<"3">>
    /\ call.str_contains
    /\ DOMAIN bucket = {AB3CSV, AC3}
    /\ call.result = AC3

\* A node built at prefix holds what the lister returned there and nothing
\* twice, and so does every node below it.
RECURSIVE NodeHoldsListing(_, _, _, _)
NodeHoldsListing(tree, prefix, delimiter, with_file_name) ==
    LET pages    == paginate(prefix, delimiter)
        prefixes == AllCommonPrefixes(pages)
        contents == AllContents(pages)
    IN  /\ Cardinality(DictKeys(tree)) = Len(tree)
        /\ Len(tree) = Len(prefixes) + (IF with_file_name THEN Len(contents) ELSE 0)
        /\ \A i \in 1..Len(tree) :
               IF tree[i].is_none
               THEN /\ tree[i].key \in Range(contents) \ Range(prefixes)
                    /\ tree[i].key \in DOMAIN bucket
                    /\ startswith(tree[i].key, prefix)
                    /\ Find(Rest(tree[i].key, prefix), delimiter) = 0
               ELSE /\ tree[i].key \in Range(prefixes) \ Range(contents)
                    /\ startswith(tree[i].key, prefix)
                    /\ endswith(tree[i].key, delimiter)
                    /\ Len(tree[i].key) > Len(prefix)
                    /\ NodeHoldsListing(tree[i].tree, tree[i].key, delimiter, with_file_name)

\* C13: in every node, at every depth, of a tree make_tree returns, each key
\* is a common prefix or a content key the lister returned for the node's
\* prefix, none is both a sub-directory and a file, and no insertion
\* overwrote an entry: the node has one entry per insertion.
C13_NodeKeysAreListedOnce ==
    call.op = "make_tree" =>
        NodeHoldsListing(call.result, call.prefix, call.delimiter, call.with_file_name)

\* A file named like a folder and a folder marker next to the folder's files.
C13_Witness ==
    /\ call.op = "make_tree"
    /\ call.prefix = <<>>
    /\ call.delimiter = <<"/">>
    /\ call.with_file_name
    /\ DOMAIN bucket = {<<"a">>, <<"a", "/">>, A1CSV, AB3CSV}
    /\ call.result =
           <<TreeItem(<<"a", "/">>,
                      <<NoneItem(<<"a", "/">>), NoneItem(A1CSV),
                        TreeItem(<<"a", "/", "b", "/">>, <<NoneItem(AB3CSV)>>)>>),
             NoneItem(<<"a">>)>>

\* ------------------------------------------------ claims about the recursion

\* The length of the longest key under prefix (0 when there is none).
LongestKey(prefix) == Max({Len(k) : k \in KeysUnder(prefix)} \cup {0})

\* The call has returned.
WalkEnded == call.op \in {"make_tree", "find_file"} /\ call.stack = <<>>

\* The nested calls compute what the recursive definitions give.
WalkAgrees ==
    WalkEnded =>
        call.result =
            Return(IF call.op = "make_tree"
                   THEN make_tree(call.prefix, call.delimiter, call.with_file_name)
                   ELSE find_file(call.file_name, call.prefix, call.delimiter,
                                  call.str_contains))

\* Every call on the stack was made on a common prefix of its caller's
\* listing that is strictly longer than the caller's prefix, as is every
\* call still to make, and no more calls are nested than the longest key
\* under the prefix has characters.
RecursionDescends ==
    call.op \in {"make_tree", "find_file"} =>
        /\ \A i \in 2..Len(call.stack) :
               /\ call.stack[i].prefix
                      \in CommonPrefixes(call.stack[i - 1].prefix, call.delimiter)
               /\ startswith(call.stack[i].prefix, call.stack[i - 1].prefix)
               /\ Len(call.stack[i].prefix) > Len(call.stack[i - 1].prefix)
        /\ \A i \in 1..Len(call.stack) : \A j \in 1..Len(call.stack[i].todo) :
               call.stack[i].todo[j].kind = "dir" =>
                   Len(call.stack[i].todo[j].key) > Len(call.stack[i].prefix)
        /\ Len(call.stack) - 1 <= LongestKey(call.prefix)
        /\ call.result # Raise("RecursionError")

\* The work a call at prefix can at most need: three steps for every
\* character a key under prefix has from the end of prefix on.  It is computed
\* from the keys, not from the listing.
Work(prefix) ==
    3 * Cardinality({<<k, n>> \in KeysUnder(prefix) \X (0..LongestKey(prefix)) :
                        Len(prefix) <= n /\ n <= Len(k)})

\* The steps an iteration still to run can need: one for a file, the call,
\* its work and its return for a sub-directory.
RECURSIVE TodoWork(_)
TodoWork(todo) ==
    IF todo = <<>> THEN 0
    ELSE (IF Head(todo).kind = "file" THEN 1 ELSE 2 + Work(Head(todo).key))
             + TodoWork(Tail(todo))

\* A bound on the steps left until the outermost call ends: per frame its
\* return and its iterations still to run.
RECURSIVE StepsLeft(_)
StepsLeft(stack) ==
    IF stack = <<>> THEN 0 ELSE 1 + TodoWork(Head(stack).todo) + StepsLeft(Tail(stack))

\* A call in progress can take a step: its frame is at a return, or at an
\* iteration that makes a call or inserts a file.
WalkNotStuck ==
    /\ InCall("make_tree") =>
           \/ Top.todo = <<>>
           \/ Top.todo # <<>> /\ Head(Top.todo).kind \in {"dir", "file"}
    /\ InCall("find_file") =>
           \/ Top.value # None \/ Top.todo = <<>>
           \/ Top.value = None /\ Top.todo # <<>> /\ Head(Top.todo).kind = "dir"

\* Every step of a call in progress lowers the bound on the steps left.
WalkStepsDown == call.op # "none" => StepsLeft(call.stack)' < StepsLeft(call.stack)

\* C14: on every snapshot and for every prefix and delimiter, make_tree and
\* find_file terminate: each recursive call is made on a common prefix
\* strictly longer than its caller's prefix, the recursion is no deeper than
\* the longest key under the prefix is long, a call in progress can always
\* step, and every step lowers a natural-number bound on the steps left.
C14_RecursionTerminates ==
    /\ []RecursionDescends
    /\ []WalkNotStuck
    /\ [][WalkStepsDown]_vars

\* Two calls are nested under the first, each on a longer prefix, and the
\* innermost has found its file.
C14_Witness ==
    /\ call.op = "find_file"
    /\ call.delimiter = <<"/">>
    /\ Len(call.stack) = 3
    /\ call.stack[1].prefix = <<>>
    /\ call.stack[2].prefix = <<"a", "/">>
    /\ call.stack[3].prefix = <<"a", "/", "b", "/">>
    /\ call.stack[3].value = AB3CSV
    /\ LongestKey(call.prefix) = Len(AB3CSV)

\* ------------------------------------- claims about compress and decompress

\* C16: for a key k holding bytes b and a method m of gzip and bz2,
\* compress(k, m) and then decompress of the key compress wrote, k + ".gz" or
\* k + ".bz2", returns with b stored at k again, and the two have written to
\* no key other than the compressed key and k; also when k contains ".gz" or
\* ".bz2".
C16_CompressDecompressRoundTrip ==
    (call.op = "decompress"
         /\ call.file_name = call.compressed.file_name \o Suffix(call.compressed.compression))
        => LET k == call.compressed.file_name
           IN  /\ call.result.kind = "return"
               /\ k \in call.written
               /\ bucket[k] = call.before[k]
               /\ call.written \subseteq {k, call.file_name}
               /\ \A other \in DOMAIN bucket \ {k, call.file_name} :
                      other \in DOMAIN call.before /\ bucket[other] = call.before[other]
====
